---- MODULE Spec2Model ----
(***************************************************************************)
(* The two-pass link-expansion build of wiki_expanded's DatasetBuilder     *)
(* (src/src/wiki_expanded/dataset_builder.py).                             *)
(*                                                                         *)
(* A state holds the processed corpus and the run's configuration (both    *)
(* fixed by the constructor), the builder's expansion state, the dataset   *)
(* file, the summary file and the position of build_expanded_dataset.      *)
(***************************************************************************)
EXTENDS Integers, Sequences, FiniteSets, TLC

(* ------------------------------ bounds ------------------------------- *)

\* Largest token count of one article.
MaxTok == 2

\* Largest value drawn for the caps max_dataset_length,
\* max_link_expansions_local and max_link_expansions_global.
MaxCap == 1

(* --------------------------- token totals ---------------------------- *)

\* A Python int has no width and TLC's integers end at 2^31 - 1, below
\* sys.maxsize: a token total (current_tokens, n_tokens) and the threshold
\* max_tokens are held as three digits of base 2^30, the most significant
\* first. The count of one article and min_tokens are TLC integers.
WideBase == 2^30

\* The int n, 0 <= n < 2^31, as a token total.
Wide(n) == <<0, n \div WideBase, n % WideBase>>

\* sys.maxsize = 2^63 - 1 = 7 * 2^60 + (2^30 - 1) * 2^30 + (2^30 - 1), the
\* default of max_tokens.
sys_maxsize == <<7, WideBase - 1, WideBase - 1>>

\* w + n for a token total w and an int n, 0 <= n < 2^31.
WideAdd(w, n) ==
    LET lo == w[3] + (n % WideBase)
        mid == w[2] + (n \div WideBase) + (lo \div WideBase)
    IN  <<w[1] + (mid \div WideBase), mid % WideBase, lo % WideBase>>

\* a < b
WideLess(a, b) ==
    \/ a[1] < b[1]
    \/ a[1] = b[1] /\ a[2] < b[2]
    \/ a[1] = b[1] /\ a[2] = b[2] /\ a[3] < b[3]

\* a <= b
WideLeq(a, b) == ~WideLess(b, a)

(* ------------------------------ corpus ------------------------------- *)

\* The titles of the model. The articles table holds a prefix of them; a
\* link to a title outside the table is a dangling link.
TitleSeq == <<"A", "B", "C">>

LinkTargets == {TitleSeq[k] : k \in 1..Len(TitleSeq)}

\* An optional int: <<>> is None, <<n>> is the int n.
None == <<>>

Some(n) == <<n>>

IsNone(x) == x = <<>>

\* Python's truth value of an optional int: None and 0 are false.
Truthy(x) == x # <<>> /\ x[1] # 0

Range(s) == {s[k] : k \in 1..Len(s)}

\* The lists over S that hold no element twice.
RECURSIVE DupFreeSeqs(_)
DupFreeSeqs(S) ==
    IF S = {} THEN {<<>>}
    ELSE {<<>>} \cup UNION {{<<x>> \o r : r \in DupFreeSeqs(S \ {x})} : x \in S}

VARIABLES
    articles_db,          \* the titles of the articles table, in SELECT's order
    title_to_links,       \* title -> the set of its links (a list without repeats)
    hash_order,           \* title -> the order list(set(links)) enumerates them in
    link_to_freq,         \* Counter: link -> number of articles it appears in
    title_to_num_tokens,  \* title -> token count
    min_tokens,
    max_tokens,
    max_dataset_length,
    max_link_expansions_local,
    max_link_expansions_global,
    include_strategy,
    link_expansion_count, \* Counter: link -> times spliced in, this pass
    dataset_length,
    all_links_considered_for_expansion,
    links_considered_in_first_iteration_but_not_expanded,
    dataset,              \* the samples appended to dataset.jsonl
    link_expansion_file,  \* link_expansion_count.json: None or <<the dict>>
    built_sample,         \* the sample of this round of the title loop: None or <<it>>
    built_items,          \* the sorted items of that round's _prioritize_links
    exception,            \* the exception that ended the run, "" for none
    iteration,
    cursor,               \* index of the next row of the title loop
    pc                    \* where build_expanded_dataset stands

corpus == <<articles_db, title_to_links, hash_order, link_to_freq, title_to_num_tokens>>

config == <<min_tokens, max_tokens, max_dataset_length,
            max_link_expansions_local, max_link_expansions_global,
            include_strategy>>

vars == <<articles_db, title_to_links, hash_order, link_to_freq, title_to_num_tokens,
          min_tokens, max_tokens, max_dataset_length,
          max_link_expansions_local, max_link_expansions_global,
          include_strategy, link_expansion_count, dataset_length,
          all_links_considered_for_expansion,
          links_considered_in_first_iteration_but_not_expanded,
          dataset, link_expansion_file, built_sample, built_items,
          exception, iteration, cursor, pc>>

(* --------------------------- collaborators --------------------------- *)

\* collections.Counter: a missing key reads as 0 and the read adds no key.
CounterGet(c, k) == IF k \in DOMAIN c THEN c[k] ELSE 0

\* Mutation of CounterAfterRead: the read stores the missing key with 0, as
\* a defaultdict(int) does.
CounterAfterReadStores(c, k) ==
    IF k \in DOMAIN c THEN c ELSE [x \in DOMAIN c \cup {k} |->
                                      IF x = k THEN 0 ELSE c[x]]

\* The counter after the read c[k]: Counter.__missing__ returns 0 and stores
\* nothing.
CounterAfterRead(c, k) == c

RECURSIVE CounterAfterReads(_, _)
CounterAfterReads(c, links) ==
    IF links = <<>> THEN c
    ELSE CounterAfterReads(CounterAfterRead(c, Head(links)), Tail(links))

\* Mutation of CounterInc: = 1 for += 1.
CounterIncAssigns(c, k) ==
    [x \in DOMAIN c \cup {k} |-> IF x = k THEN 1 ELSE c[x]]

\* c[k] += 1
CounterInc(c, k) ==
    [x \in DOMAIN c \cup {k} |-> IF x = k THEN CounterGet(c, k) + 1 ELSE c[x]]

EmptyCounter == [x \in {} |-> 0]

\* SELECT 1 FROM articles WHERE title = ?
ArticleExists(title) == title \in {articles_db[k] : k \in 1..Len(articles_db)}

\* The text column of an article's row: one block, named by its title;
\* "\n\n" is the blank line that _include_link_text puts between two blocks.
RowText(title) == <<title>>

\* _get_article_text: the text of the row, or KeyError if the table has no
\* row of that title.
ArticleText(title) ==
    IF ArticleExists(title)
    THEN [exception |-> "", text |-> RowText(title)]
    ELSE [exception |-> "KeyError", text |-> <<>>]

BlankLine == "\n\n"

\* The processor's link_to_freq, a Counter: each article adds 1 for each of
\* its links; when a longer text of a title seen before overrides the
\* shorter one, the links of the old text are taken off again, and a count
\* that falls to 0 keeps its key. links are the link sets that stay,
\* overridden the links of the texts that were overridden.
FreqOf(links, overridden) ==
    LET all == UNION {links[t] : t \in DOMAIN links}
    IN  [l \in all \cup overridden |->
            Cardinality({t \in DOMAIN links : l \in links[t]})]

(* ----------------------------- prioritizer --------------------------- *)

\* The flag of _prioritize_links: the link was considered but not expanded in
\* the first iteration, and has not been expanded yet in this one.
ToPrioritize(link, lec, carried) ==
    link \in carried /\ CounterGet(lec, link) = 0

\* One element of items: (link, to_prioritize, expansion_count, frequency,
\* num_tokens).
MakeItem(link, lec, carried) ==
    << link,
       ToPrioritize(link, lec, carried),
       CounterGet(lec, link),
       CounterGet(link_to_freq, link),
       title_to_num_tokens[link] >>

\* Mutation of SortKey: the key leaves out the flag (item[2], item[3], item[4]).
SortKeyWithoutFlag(item) ==
    << item[3], item[4], item[5] >>

\* Mutation of SortKey: the frequency comes before the expansion count.
SortKeyFrequencyBeforeCount(item) ==
    << IF item[2] THEN 0 ELSE 1, item[4], item[3], item[5] >>

\* Mutation of SortKey: the key leaves out the token count (item[4]).
SortKeyWithoutTokens(item) ==
    << IF item[2] THEN 0 ELSE 1, item[3], item[4] >>

\* Mutation of SortKey: the last component prefers the link with more tokens.
SortKeyMoreTokensFirst(item) ==
    << IF item[2] THEN 0 ELSE 1, item[3], item[4], 0 - item[5] >>

\* The sort key (not item[1], item[2], item[3], item[4]) of the source, whose
\* indices start at 0; False < True.
SortKey(item) ==
    << IF item[2] THEN 0 ELSE 1, item[3], item[4], item[5] >>

\* Python's tuple order on two keys of the same length.
RECURSIVE TupleLess(_, _)
TupleLess(a, b) ==
    IF a = <<>> THEN FALSE
    ELSE IF Head(a) # Head(b) THEN Head(a) < Head(b)
    ELSE TupleLess(Tail(a), Tail(b))

\* One insertion of sorted(..., reverse=True): x goes behind every element
\* whose key is not smaller, so equal keys keep the order they came in.
RECURSIVE InsertReverse(_, _)
InsertReverse(s, x) ==
    IF s = <<>> THEN <<x>>
    ELSE IF TupleLess(SortKey(Head(s)), SortKey(x))
         THEN <<x>> \o s
         ELSE <<Head(s)>> \o InsertReverse(Tail(s), x)

\* sorted(items, key=..., reverse=True): descending and stable.
RECURSIVE SortedReverse(_)
SortedReverse(items) ==
    IF items = <<>> THEN <<>>
    ELSE InsertReverse(SortedReverse(SubSeq(items, 1, Len(items) - 1)),
                       items[Len(items)])

\* The sorted items of _prioritize_links: the most preferred one comes last.
PrioritizedItems(links, lec, carried) ==
    SortedReverse([k \in 1..Len(links) |-> MakeItem(links[k], lec, carried)])

\* [item[0] for item in items]
LinksOf(items) == [k \in 1..Len(items) |-> items[k][1]]

\* _prioritize_links.
PrioritizeLinks(links, lec, carried) ==
    IF links = <<>> THEN links
    ELSE LinksOf(PrioritizedItems(links, lec, carried))

\* list(set(self.title_to_links[title])): the enumeration order is the set's.
ListOfSet(title, order) == order[title]

\* Mutation of ExistingLinks: the existence filter is left out.
ExistingLinksUnfiltered(links) == links

\* The existence filter of _get_links.
ExistingLinks(links) == SelectSeq(links, ArticleExists)

\* Mutation of UnderQuota: the comparison with the quota is <= for <.
UnderQuotaInclusive(links, lec) ==
    IF Truthy(max_link_expansions_global)
    THEN SelectSeq(links,
             LAMBDA l : CounterGet(lec, l) <= max_link_expansions_global[1])
    ELSE links

\* The global quota filter of _get_links; a quota of None or 0 is not truthy
\* and filters nothing.
UnderQuota(links, lec) ==
    IF Truthy(max_link_expansions_global)
    THEN SelectSeq(links,
             LAMBDA l : CounterGet(lec, l) < max_link_expansions_global[1])
    ELSE links

\* The links that _get_links hands to _prioritize_links.
Candidates(title, lec, order) ==
    UnderQuota(ExistingLinks(ListOfSet(title, order)), lec)

\* _prioritize_links reads title_to_num_tokens[link] of every candidate: a
\* candidate without a token count raises KeyError.
GetLinksRaises(title, lec, order) ==
    \E k \in 1..Len(Candidates(title, lec, order)) :
        Candidates(title, lec, order)[k] \notin DOMAIN title_to_num_tokens

\* The links whose link_expansion_count[link] one call of _get_links reads:
\* every existing link in the quota filter, if there is a quota, and every
\* candidate in _prioritize_links.
LinksRead(title, lec, order) ==
    (IF Truthy(max_link_expansions_global)
     THEN ExistingLinks(ListOfSet(title, order)) ELSE <<>>)
        \o Candidates(title, lec, order)

\* _get_links.
GetLinks(title, lec, carried, order) ==
    PrioritizeLinks(Candidates(title, lec, order), lec, carried)

(* -------------------------------- engine ------------------------------ *)

\* Mutation of ValidStrategy: the else branch that raises is missing.
ValidStrategyAny(s) == TRUE

ValidStrategy(s) == s \in {"append", "prepend"}

\* Mutation of IncludeLinkText: the link text goes in front under either
\* strategy.
IncludeLinkTextInFront(link_article, text) ==
    link_article \o <<BlankLine>> \o text

\* _include_link_text, for a strategy that does not raise.
IncludeLinkText(link_article, text) ==
    IF include_strategy = "append"
    THEN text \o <<BlankLine>> \o link_article
    ELSE link_article \o <<BlankLine>> \o text

\* Mutation of MayExpand: the local cap is tested for truth, so that a cap of
\* 0 counts as no cap.
MayExpandTruthyCap(current_tokens, n_links_expanded) ==
    /\ WideLess(current_tokens, max_tokens)
    /\ \/ ~Truthy(max_link_expansions_local)
       \/ n_links_expanded < max_link_expansions_local[1]

\* Mutation of MayExpand: the comparison with max_tokens is <= for <.
MayExpandInclusive(current_tokens, n_links_expanded) ==
    /\ WideLeq(current_tokens, max_tokens)
    /\ \/ IsNone(max_link_expansions_local)
       \/ n_links_expanded < max_link_expansions_local[1]

\* Mutation of MayExpand: the loop stops one token short of max_tokens.
MayExpandOneShort(current_tokens, n_links_expanded) ==
    /\ WideLess(WideAdd(current_tokens, 1), max_tokens)
    /\ \/ IsNone(max_link_expansions_local)
       \/ n_links_expanded < max_link_expansions_local[1]

\* The loop condition of _expand.
MayExpand(current_tokens, n_links_expanded) ==
    /\ WideLess(current_tokens, max_tokens)
    /\ \/ IsNone(max_link_expansions_local)
       \/ n_links_expanded < max_link_expansions_local[1]

\* Mutation of AddTokens: = for +=.
AddTokensAssigns(current_tokens, link) == Wide(title_to_num_tokens[link])

\* current_tokens += self.title_to_num_tokens[link]
AddTokens(current_tokens, link) ==
    WideAdd(current_tokens, title_to_num_tokens[link])

MakeSample(title, current_tokens, links_expanded, n_links_expanded, text) ==
    [title |-> title,
     n_tokens |-> current_tokens,
     links_expanded |-> links_expanded,
     n_links_expanded |-> n_links_expanded,
     expanded_text |-> text]

\* The while loop of _expand. exception: "" when the loop ends, "KeyError"
\* when _get_article_text raises, "ValueError" when _include_link_text does.
RECURSIVE ExpandLoop(_, _, _, _, _, _)
ExpandLoop(title, links, current_tokens, n_links_expanded, links_expanded, text) ==
    LET stop == [exception |-> "",
                 sample |-> MakeSample(title, current_tokens, links_expanded,
                                       n_links_expanded, text)]
    IN  IF ~MayExpand(current_tokens, n_links_expanded) THEN stop
        ELSE IF links = <<>> THEN stop
        ELSE LET link == links[Len(links)]
                 rest == SubSeq(links, 1, Len(links) - 1)
             IN  IF ~ArticleExists(link)
                 THEN ExpandLoop(title, rest, current_tokens, n_links_expanded,
                                 links_expanded, text)
                 ELSE IF ArticleText(link).exception # ""
                 THEN [stop EXCEPT !.exception = ArticleText(link).exception]
                 ELSE IF ~ValidStrategy(include_strategy)
                 THEN [stop EXCEPT !.exception = "ValueError"]
                 ELSE ExpandLoop(title, rest,
                                 AddTokens(current_tokens, link),
                                 n_links_expanded + 1,
                                 Append(links_expanded, link),
                                 IncludeLinkText(ArticleText(link).text, text))

\* _expand, from the list that its call of _get_links returned.
Expand(title, text, links) ==
    ExpandLoop(title, links, Wide(title_to_num_tokens[title]), 0, <<>>, text)

(* ----------------------------- orchestrator --------------------------- *)

\* Mutation of InWindow: the lower end of the window is not checked.
InWindowNoLowerEnd(sample) ==
    WideLeq(sample.n_tokens, max_tokens)

\* Mutation of InWindow: the upper end of the window is not checked.
InWindowNoUpperEnd(sample) ==
    WideLeq(Wide(min_tokens), sample.n_tokens)

\* The acceptance window of _build_dataset.
InWindow(sample) ==
    /\ WideLeq(Wide(min_tokens), sample.n_tokens)
    /\ WideLeq(sample.n_tokens, max_tokens)

\* _track_expanded_links.
RECURSIVE TrackExpandedLinks(_, _)
TrackExpandedLinks(lec, links) ==
    IF links = <<>> THEN lec
    ELSE TrackExpandedLinks(CounterInc(lec, Head(links)), Tail(links))

\* Mutation of DatasetDone: the comparison with the cap is > for >=.
DatasetDoneStrict(length) ==
    Truthy(max_dataset_length) /\ length > max_dataset_length[1]

\* dataset_done: max_dataset_length and (dataset_length >= max_dataset_length).
DatasetDone(length) ==
    Truthy(max_dataset_length) /\ length >= max_dataset_length[1]

\* Mutation of Emits: the sample is appended in either iteration.
EmitsAlways(it) == TRUE

\* if iteration == 1: self._append_sample(sample=sample)
Emits(it) == it = 1

\* One round of the title loop of _build_dataset on the expansion state
\* s = [lec, considered, dataset, dataset_length]; carried and order are read
\* only; the reads of link_expansion_count come first, the expansion then
\* works on the counts as read. outcome: "raise" (an exception leaves the
\* loop), "continue" (the sample is outside the window), "break"
\* (dataset_done) or "next". sample
\* and items are the round's locals: the sample built and the sorted items
\* of its call of _prioritize_links.
LoopBody(s, it, title, carried, order) ==
    LET keep == [lec |-> CounterAfterReads(s.lec,
                                           LinksRead(title, s.lec, order)),
                 considered |-> s.considered,
                 dataset |-> s.dataset, dataset_length |-> s.dataset_length,
                 sample |-> None, items |-> <<>>, exception |-> ""]
    IN  IF GetLinksRaises(title, s.lec, order)
        THEN [keep EXCEPT !.exception = "KeyError"] @@ [outcome |-> "raise"]
        ELSE
        LET items == PrioritizedItems(Candidates(title, s.lec, order),
                                      s.lec, carried)
            r == Expand(title, RowText(title),
                        GetLinks(title, s.lec, carried, order))
            sample == r.sample
            built == [keep EXCEPT !.sample = <<sample>>, !.items = items]
        IN  IF r.exception # ""
            THEN [keep EXCEPT !.exception = r.exception, !.items = items]
                     @@ [outcome |-> "raise"]
            ELSE IF ~InWindow(sample) THEN built @@ [outcome |-> "continue"]
            ELSE LET len == IF Emits(it) THEN s.dataset_length + 1
                            ELSE s.dataset_length
                 IN  [built EXCEPT
                          !.considered = IF it = 0
                                         THEN @ \cup title_to_links[title]
                                         ELSE @,
                          !.lec = TrackExpandedLinks(@, sample.links_expanded),
                          !.dataset = IF Emits(it) THEN Append(@, sample)
                                      ELSE @,
                          !.dataset_length = len]
                         @@ [outcome |-> IF DatasetDone(len) THEN "break"
                                         ELSE "next"]

\* Mutation of CarriedForward: the links expanded are not taken out.
CarriedForwardAll(considered, lec) == considered

\* all_links_considered_for_expansion - set(link_expansion_count.keys())
CarriedForward(considered, lec) == considered \ DOMAIN lec

\* The title loop of _build_dataset from row k on, as one function of the
\* expansion state s = [lec, considered, dataset, dataset_length, exception].
RECURSIVE TitleLoop(_, _, _, _, _)
TitleLoop(s, it, k, carried, order) ==
    IF k > Len(articles_db) THEN s
    ELSE LET r == LoopBody(s, it, articles_db[k], carried, order)
             t == [lec |-> r.lec, considered |-> r.considered,
                   dataset |-> r.dataset, dataset_length |-> r.dataset_length,
                   exception |-> r.exception]
         IN  IF r.outcome \in {"raise", "break"} THEN t
             ELSE TitleLoop(t, it, k + 1, carried, order)

\* build_expanded_dataset as one function of the enumeration order of the
\* link sets: what a run of the whole program leaves behind (the dataset
\* file, the summary file if it was written, the exception if one ended it).
BuildExpandedDataset(order) ==
    LET s0 == [lec |-> EmptyCounter, considered |-> {}, dataset |-> <<>>,
               dataset_length |-> 0, exception |-> ""]
        p0 == TitleLoop(s0, 0, 1, {}, order)
        carried == CarriedForward(p0.considered, p0.lec)
        s1 == [p0 EXCEPT !.lec = EmptyCounter, !.dataset_length = 0]
        p1 == TitleLoop(s1, 1, 1, carried, order)
    IN  IF p0.exception # ""
        THEN [exception |-> p0.exception, dataset |-> p0.dataset,
              link_expansion_file |-> None]
        ELSE IF p1.exception # ""
        THEN [exception |-> p1.exception, dataset |-> p1.dataset,
              link_expansion_file |-> None]
        ELSE [exception |-> "", dataset |-> p1.dataset,
              link_expansion_file |-> <<p1.lec>>]

(* ------------------------------- actions ------------------------------ *)

\* Mutation of InitDataset: link_expansion_count is not reset.
InitDatasetKeepsCounts ==
    /\ pc = "init_dataset"
    /\ dataset_length' = 0
    /\ cursor' = 1
    /\ pc' = IF articles_db = <<>> THEN "iteration_end" ELSE "build_dataset"
    /\ UNCHANGED <<corpus, config, all_links_considered_for_expansion,
                   links_considered_in_first_iteration_but_not_expanded,
                   dataset, link_expansion_file, built_sample, built_items,
                   exception, iteration, link_expansion_count>>

\* _init_dataset, at the head of each iteration of build_expanded_dataset;
\* the title loop that follows ends at once on an empty table.
InitDataset ==
    /\ pc = "init_dataset"
    /\ link_expansion_count' = EmptyCounter
    /\ dataset_length' = 0
    /\ cursor' = 1
    /\ pc' = IF articles_db = <<>> THEN "iteration_end" ELSE "build_dataset"
    /\ UNCHANGED <<corpus, config, all_links_considered_for_expansion,
                   links_considered_in_first_iteration_but_not_expanded,
                   dataset, link_expansion_file, built_sample, built_items,
                   exception, iteration>>

\* One round of the title loop of _build_dataset.
BuildDataset ==
    /\ pc = "build_dataset"
    /\ cursor <= Len(articles_db)
    /\ \E r \in {LoopBody([lec |-> link_expansion_count,
                           considered |-> all_links_considered_for_expansion,
                           dataset |-> dataset,
                           dataset_length |-> dataset_length],
                          iteration, articles_db[cursor],
                          links_considered_in_first_iteration_but_not_expanded,
                          hash_order)} :
           /\ link_expansion_count' = r.lec
           /\ all_links_considered_for_expansion' = r.considered
           /\ dataset' = r.dataset
           /\ dataset_length' = r.dataset_length
           /\ built_sample' = r.sample
           /\ built_items' = r.items
           /\ exception' = r.exception
           /\ cursor' = cursor + 1
           /\ pc' = IF r.outcome = "raise" THEN "raised"
                    ELSE IF r.outcome = "break" \/ cursor = Len(articles_db)
                    THEN "iteration_end"
                    ELSE "build_dataset"
    /\ UNCHANGED <<corpus, config,
                   links_considered_in_first_iteration_but_not_expanded,
                   link_expansion_file, iteration>>

\* Mutation of IterationEnd: the summary is saved inside the loop, at the end
\* of each iteration.
IterationEndSaves ==
    /\ pc = "iteration_end"
    /\ links_considered_in_first_iteration_but_not_expanded' =
           IF iteration = 0
           THEN CarriedForward(all_links_considered_for_expansion,
                               link_expansion_count)
           ELSE links_considered_in_first_iteration_but_not_expanded
    /\ built_sample' = None
    /\ built_items' = <<>>
    /\ iteration' = IF iteration = 0 THEN 1 ELSE iteration
    /\ link_expansion_file' = <<link_expansion_count>>
    /\ pc' = IF iteration = 0 THEN "init_dataset" ELSE "save"
    /\ UNCHANGED <<corpus, config, link_expansion_count, dataset_length,
                   all_links_considered_for_expansion, dataset,
                   exception, cursor>>

\* The tail of one iteration of build_expanded_dataset, _build_dataset having
\* returned (its locals are gone): after the first iteration the
\* carried-forward set is computed.
IterationEnd ==
    /\ pc = "iteration_end"
    /\ links_considered_in_first_iteration_but_not_expanded' =
           IF iteration = 0
           THEN CarriedForward(all_links_considered_for_expansion,
                               link_expansion_count)
           ELSE links_considered_in_first_iteration_but_not_expanded
    /\ built_sample' = None
    /\ built_items' = <<>>
    /\ iteration' = IF iteration = 0 THEN 1 ELSE iteration
    /\ pc' = IF iteration = 0 THEN "init_dataset" ELSE "save"
    /\ UNCHANGED <<corpus, config, link_expansion_count, dataset_length,
                   all_links_considered_for_expansion, dataset,
                   link_expansion_file, exception, cursor>>

\* _save_link_expansion_count.
SaveLinkExpansionCount ==
    /\ pc = "save"
    /\ link_expansion_file' = <<link_expansion_count>>
    /\ pc' = "done"
    /\ UNCHANGED <<corpus, config, link_expansion_count, dataset_length,
                   all_links_considered_for_expansion,
                   links_considered_in_first_iteration_but_not_expanded,
                   dataset, built_sample, built_items, exception, iteration,
                   cursor>>

Next ==
    \/ InitDataset
    \/ BuildDataset
    \/ IterationEnd
    \/ SaveLinkExpansionCount

(* ------------------------------ initial state ------------------------- *)

\* The lists list(set(links)) can return for an article: its links are any
\* titles but its own.
LinkLists(t) == DupFreeSeqs(LinkTargets \ {t})

\* The choices of one list per article, for the first n titles.
RECURSIVE HashOrdersOf(_)
HashOrdersOf(n) ==
    IF n = 0 THEN {<<>>}
    ELSE {h @@ (TitleSeq[n] :> v) : h \in HashOrdersOf(n - 1),
                                    v \in LinkLists(TitleSeq[n])}

\* The builder after __init__: the counters are empty, nothing is written.
InitBuilder ==
    /\ link_expansion_count = EmptyCounter
    /\ dataset_length = 0
    /\ all_links_considered_for_expansion = {}
    /\ links_considered_in_first_iteration_but_not_expanded = {}
    /\ dataset = <<>>
    /\ link_expansion_file = None
    /\ built_sample = None
    /\ built_items = <<>>
    /\ exception = ""
    /\ iteration = 0
    /\ cursor = 1
    /\ pc = "init_dataset"

\* The links of the texts that the processor overrode: none, or one title.
OverriddenLinks == {{}} \cup {{l} : l \in LinkTargets}

\* The processed data that __init__ reads: the first n titles are articles,
\* each with a link list, a token count (the smallest, 1, or the largest,
\* MaxTok) and the link frequencies that the processor derives from the link
\* lists and from the texts it overrode.
InitCorpus ==
    \E n \in 0..Len(TitleSeq) :
        /\ articles_db = SubSeq(TitleSeq, 1, n)
        /\ hash_order \in HashOrdersOf(n)
        /\ title_to_links = [t \in DOMAIN hash_order |-> Range(hash_order[t])]
        /\ \E old \in OverriddenLinks :
               link_to_freq = FreqOf(title_to_links, old)
        /\ title_to_num_tokens \in [DOMAIN hash_order -> {1, MaxTok}]

\* The defaults of DatasetBuilder.__init__.
DefaultSettings ==
    [min_tokens |-> 0,
     max_tokens |-> sys_maxsize,
     max_dataset_length |-> None,
     max_link_expansions_local |-> None,
     max_link_expansions_global |-> None,
     include_strategy |-> "prepend"]

\* The values drawn for each argument of DatasetBuilder.__init__, which takes
\* any str as include_strategy: "replace" is one that is no include strategy
\* (the command line of build_dataset.py lets only prepend and append
\* through; a caller of the class is not held to them).
SettingValues ==
    [min_tokens : {0, MaxTok},
     max_tokens : {Wide(0), Wide(MaxTok), Wide(MaxTok + 1), sys_maxsize},
     max_dataset_length : {None} \cup {Some(n) : n \in 1..MaxCap},
     max_link_expansions_local : {None} \cup {Some(n) : n \in 0..MaxCap},
     max_link_expansions_global : {None} \cup {Some(n) : n \in 0..MaxCap},
     include_strategy : {"prepend", "append", "replace"}]

\* The arguments that DatasetBuilder is constructed with: at most two of
\* them differ from their defaults.
Settings ==
    {c \in SettingValues :
        Cardinality({k \in DOMAIN c : c[k] # DefaultSettings[k]}) <= 2}

InitSettings(c) ==
    /\ min_tokens = c.min_tokens
    /\ max_tokens = c.max_tokens
    /\ max_dataset_length = c.max_dataset_length
    /\ max_link_expansions_local = c.max_link_expansions_local
    /\ max_link_expansions_global = c.max_link_expansions_global
    /\ include_strategy = c.include_strategy

Init ==
    /\ InitCorpus
    /\ \E c \in Settings : InitSettings(c)
    /\ InitBuilder

Spec == Init /\ [][Next]_vars

\* The corpus of Scenario A: A has 3 tokens and links to B and C, B has 5
\* tokens, C has 2, and neither links anywhere.
ScenarioATokens == [A |-> 3, B |-> 5, C |-> 2]

ScenarioALinks == [A |-> {"B", "C"}, B |-> {}, C |-> {}]

\* The processed data of Scenario A: the rows of the table in any order, the
\* link sets in any enumeration order.
InitCorpusA ==
    /\ articles_db \in {r \in DupFreeSeqs(Range(TitleSeq)) :
                             Len(r) = Len(TitleSeq)}
    /\ hash_order \in {o \in HashOrdersOf(Len(TitleSeq)) :
                            \A t \in DOMAIN o : Range(o[t]) = ScenarioALinks[t]}
    /\ title_to_links = ScenarioALinks
    /\ link_to_freq = FreqOf(title_to_links, {})
    /\ title_to_num_tokens = ScenarioATokens

\* Scenario A: max_tokens is 8, every other argument has its default.
InitA ==
    /\ InitCorpusA
    /\ InitSettings([DefaultSettings EXCEPT !.max_tokens = Wide(8)])
    /\ InitBuilder

SpecA == InitA /\ [][Next]_vars

\* A corpus of four articles in which A and B are the link targets: C and D
\* link to any of A and B, A may link to B and B to A, so that a link can be
\* named by three articles and another, already spliced in once, by two.
HubRows == {<<"C", "D", "A", "B">>, <<"A", "B", "C", "D">>}

HubLinkLists ==
    [A : DupFreeSeqs({"B"}), B : DupFreeSeqs({"A"}),
     C : DupFreeSeqs({"A", "B"}), D : DupFreeSeqs({"A", "B"})]

InitCorpusHub ==
    /\ articles_db \in HubRows
    /\ hash_order \in HubLinkLists
    /\ title_to_links = [t \in DOMAIN hash_order |-> Range(hash_order[t])]
    /\ link_to_freq = FreqOf(title_to_links, {})
    /\ title_to_num_tokens \in [DOMAIN hash_order -> 1..MaxTok]

\* The arguments drawn for the hub corpus: the threshold and the local cap,
\* which decide how many of the prioritized links are spliced in.
HubSettings ==
    {[DefaultSettings EXCEPT !.max_tokens = m, !.max_link_expansions_local = c] :
        m \in {Wide(MaxTok + 1), sys_maxsize}, c \in {None, Some(MaxCap)}}

InitHub ==
    /\ InitCorpusHub
    /\ \E c \in HubSettings : InitSettings(c)
    /\ InitBuilder

SpecHub == InitHub /\ [][Next]_vars

(* ------------------------------- claims ------------------------------- *)

\* The samples in dataset.jsonl.
EmittedSamples == {dataset[k] : k \in 1..Len(dataset)}

\* The sample that the current round of the title loop built, if any.
BuiltSamples == IF built_sample = None THEN {} ELSE {built_sample[1]}

\* The candidate links of that round, as _get_links returned them.
BuiltLinks == {built_items[k][1] : k \in 1..Len(built_items)}

\* The token counts of the titles, added up as a token total.
RECURSIVE TokenSum(_)
TokenSum(titles) ==
    IF titles = <<>> THEN Wide(0)
    ELSE WideAdd(TokenSum(Tail(titles)), title_to_num_tokens[Head(titles)])

Position(seq, x) == CHOOSE k \in 1..Len(seq) : seq[k] = x

\* In sample s, link b is not spliced in unless link a was spliced in before it.
ExpandedFirst(s, a, b) ==
    b \in Range(s.links_expanded) =>
        /\ a \in Range(s.links_expanded)
        /\ Position(s.links_expanded, a) < Position(s.links_expanded, b)

\* C1: every sample that _expand builds, and so every sample in the dataset,
\* has n_tokens equal to the token count of its title plus the token counts
\* of the links in links_expanded, and n_links_expanded equal to the length
\* of links_expanded.
C1_TokenCount ==
    \A s \in BuiltSamples \cup EmittedSamples :
        /\ s.n_tokens = WideAdd(TokenSum(s.links_expanded),
                                title_to_num_tokens[s.title])
        /\ s.n_links_expanded = Len(s.links_expanded)

\* A sample with two links spliced in has been emitted.
C1_Witness ==
    \E s \in EmittedSamples : Len(s.links_expanded) >= 2

\* C2: with a global quota of at least 1, no link's expansion count exceeds
\* the quota in any state of either pass, nor in the summary file.
C2_QuotaRespected ==
    (max_link_expansions_global # None /\ max_link_expansions_global[1] >= 1) =>
        /\ \A l \in DOMAIN link_expansion_count :
               link_expansion_count[l] <= max_link_expansions_global[1]
        /\ link_expansion_file # None =>
               \A l \in DOMAIN link_expansion_file[1] :
                   link_expansion_file[1][l] <= max_link_expansions_global[1]

\* Under a quota, an article was processed one of whose links to an existing
\* article had used up the quota and was left out of its candidates.
C2_Witness ==
    /\ max_link_expansions_global # None
    /\ max_link_expansions_global[1] >= 1
    /\ \E s \in BuiltSamples : \E l \in title_to_links[s.title] :
           /\ ArticleExists(l)
           /\ l \notin BuiltLinks
           /\ CounterGet(link_expansion_count, l) = max_link_expansions_global[1]

\* C3, as claimed: in the second iteration, a candidate in the carried-forward
\* set is spliced in before any candidate outside the set, whatever the
\* expansion counts are.
C3_CarriedForwardFirst ==
    (iteration = 1) =>
        \A s \in BuiltSamples : \A a, b \in BuiltLinks :
            ( /\ a \in links_considered_in_first_iteration_but_not_expanded
              /\ b \notin links_considered_in_first_iteration_but_not_expanded )
            => ExpandedFirst(s, a, b)

\* C3, amended: in the second iteration, a candidate in the carried-forward
\* set that has not been expanded yet in this iteration (its item's flag is
\* set) is spliced in before any candidate outside the set.
C3_UnexpandedCarriedForwardFirst ==
    (iteration = 1) =>
        \A s \in BuiltSamples : \A i, j \in 1..Len(built_items) :
            ( /\ built_items[i][2]
              /\ built_items[j][1] \notin
                     links_considered_in_first_iteration_but_not_expanded )
            => ExpandedFirst(s, built_items[i][1], built_items[j][1])

\* In the second iteration a flagged candidate was spliced in ahead of a
\* candidate outside the set that the rest of the key would have put first.
C3_Witness ==
    /\ iteration = 1
    /\ \E s \in BuiltSamples : \E i, j \in 1..Len(built_items) :
           /\ built_items[i][2]
           /\ built_items[j][1] \notin
                  links_considered_in_first_iteration_but_not_expanded
           /\ built_items[j][1] \in Range(s.links_expanded)
           /\ TupleLess(Tail(SortKey(built_items[j])),
                        Tail(SortKey(built_items[i])))

\* C4: every sample in the dataset has min_tokens <= n_tokens <= max_tokens.
C4_AcceptanceWindow ==
    \A s \in EmittedSamples :
        /\ WideLeq(Wide(min_tokens), s.n_tokens)
        /\ WideLeq(s.n_tokens, max_tokens)

\* A run ended with a sample of exactly max_tokens tokens in the dataset and
\* another article's sample left out.
C4_Witness ==
    /\ pc = "done"
    /\ max_dataset_length = None
    /\ Len(dataset) < Len(articles_db)
    /\ \E s \in EmittedSamples : s.n_tokens = max_tokens

\* C5: when _expand stops, the sample has reached max_tokens, or every
\* candidate link has been spliced in, or the number of links spliced in has
\* reached the local cap; this holds of every sample built, the emitted ones
\* among them.
C5_ThresholdTermination ==
    \A s \in BuiltSamples :
        \/ WideLeq(max_tokens, s.n_tokens)
        \/ BuiltLinks \subseteq Range(s.links_expanded)
        \/ /\ max_link_expansions_local # None
           /\ Len(s.links_expanded) >= max_link_expansions_local[1]

\* A sample was emitted that stopped at the local cap alone: below
\* max_tokens, with a candidate left.
C5_Witness ==
    /\ iteration = 1
    /\ \E s \in BuiltSamples :
           /\ s \in EmittedSamples
           /\ WideLess(s.n_tokens, max_tokens)
           /\ ~(BuiltLinks \subseteq Range(s.links_expanded))
           /\ Len(s.links_expanded) >= 1

\* The enumeration orders that list(set(...)) can give the link sets of this
\* corpus: the corpus is the same, only the order of the hash table differs.
SameCorpusOrders ==
    {o \in HashOrdersOf(Len(articles_db)) :
        /\ DOMAIN o = DOMAIN hash_order
        /\ \A t \in DOMAIN o : Range(o[t]) = title_to_links[t]}

\* The run has ended and its files are as BuildExpandedDataset computes them
\* for the enumeration order the run had.
RunAgrees ==
    (pc \in {"done", "raised"}) =>
        LET r == BuildExpandedDataset(hash_order)
        IN  /\ r.dataset = dataset
            /\ r.link_expansion_file = link_expansion_file
            /\ r.exception = exception

\* C6, as claimed: when a run has ended, every run over the same corpus and
\* configuration (whatever order its process enumerates the link sets in) has
\* the same sample stream and the same final link-expansion counts.
C6_Determinism ==
    (pc = "done") =>
        \A o \in SameCorpusOrders :
            /\ BuildExpandedDataset(o).dataset = dataset
            /\ BuildExpandedDataset(o).link_expansion_file = link_expansion_file

\* C7, as claimed: with a global quota of 0 no sample has a link spliced in,
\* no expansion count becomes positive and no error is raised.
C7_ZeroQuotaNoExpansion ==
    (max_link_expansions_global = Some(0)) =>
        /\ \A s \in BuiltSamples \cup EmittedSamples : s.links_expanded = <<>>
        /\ \A l \in DOMAIN link_expansion_count : link_expansion_count[l] <= 0
        /\ pc # "raised"

RECURSIVE CounterTotal(_)
CounterTotal(c) ==
    IF DOMAIN c = {} THEN 0
    ELSE LET k == CHOOSE x \in DOMAIN c : TRUE
         IN  c[k] + CounterTotal([x \in DOMAIN c \ {k} |-> c[x]])

RECURSIVE LinksSplicedIn(_)
LinksSplicedIn(samples) ==
    IF samples = <<>> THEN 0
    ELSE Len(Head(samples).links_expanded) + LinksSplicedIn(Tail(samples))

\* In the second iteration, from the empty expansion state, the title of row
\* k gives a sample outside the acceptance window.
RejectedFromStart(k) ==
    LoopBody([lec |-> EmptyCounter,
              considered |-> all_links_considered_for_expansion,
              dataset |-> <<>>, dataset_length |-> 0],
             1, articles_db[k],
             links_considered_in_first_iteration_but_not_expanded,
             hash_order).outcome = "continue"

\* C8: with max_dataset_length >= 1, the dataset never holds more samples
\* than max_dataset_length; once dataset_length has reached it in the second
\* iteration the title loop is over, the last row processed being the one
\* whose sample filled the dataset, and only the emitted samples have been
\* tracked; with max_dataset_length = 1 the one sample emitted is that of the
\* first row of the second iteration whose sample is accepted.
C8_DatasetLengthStop ==
    (max_dataset_length # None /\ max_dataset_length[1] >= 1) =>
        /\ Len(dataset) <= max_dataset_length[1]
        /\ (iteration = 1 /\ pc # "init_dataset"
                /\ dataset_length >= max_dataset_length[1]) =>
               /\ pc \in {"iteration_end", "save", "done"}
               /\ Len(dataset) = max_dataset_length[1]
               /\ dataset[Len(dataset)].title = articles_db[cursor - 1]
               /\ CounterTotal(link_expansion_count) = LinksSplicedIn(dataset)
               /\ max_dataset_length[1] = 1 =>
                      \A k \in 1..(cursor - 2) : RejectedFromStart(k)

\* A run with max_dataset_length = 1 ended with one sample emitted, after a
\* row whose sample was rejected and before a row that was never processed.
C8_Witness ==
    /\ pc = "done"
    /\ max_dataset_length = Some(1)
    /\ Len(dataset) = 1
    /\ cursor - 1 > 1
    /\ cursor - 1 < Len(articles_db)

\* The links of an article that name no article of the corpus.
DanglingLinks(title) == {l \in title_to_links[title] : ~ArticleExists(l)}

\* C9: no sample has a link spliced in whose target is not in the corpus; a
\* run is ended by no exception but the ValueError of an unknown include
\* strategy; and an article all of whose links are dangling gives a sample
\* with no link spliced in, its own token count and its own text.
C9_DanglingLinksAbsorbed ==
    /\ \A s \in BuiltSamples \cup EmittedSamples :
           \A l \in Range(s.links_expanded) : ArticleExists(l)
    /\ (pc = "raised") =>
           (exception = "ValueError" /\ ~ValidStrategy(include_strategy))
    /\ exception \in {"", "ValueError"}
    /\ \A s \in BuiltSamples \cup EmittedSamples :
           (DanglingLinks(s.title) = title_to_links[s.title]) =>
               /\ s.links_expanded = <<>>
               /\ s.n_tokens = Wide(title_to_num_tokens[s.title])
               /\ s.expanded_text = RowText(s.title)

\* A run ended with the sample of an article whose only link is dangling in
\* the dataset, and with a sample that has a link spliced in of an article
\* that also has a dangling link.
C9_Witness ==
    /\ pc = "done"
    /\ \E s \in EmittedSamples :
           /\ Cardinality(title_to_links[s.title]) = 1
           /\ DanglingLinks(s.title) = title_to_links[s.title]
    /\ \E s \in EmittedSamples :
           /\ DanglingLinks(s.title) # {}
           /\ s.links_expanded # <<>>

\* The sample that Scenario A describes for A.
ScenarioASample ==
    [title |-> "A",
     n_tokens |-> Wide(10),
     links_expanded |-> <<"C", "B">>,
     n_links_expanded |-> 2,
     expanded_text |-> <<"B", BlankLine, "C", BlankLine, "A">>]

\* C10, as claimed: in Scenario A the run ends with the sample for A, with C
\* and then B spliced in and 10 tokens, in the dataset.
C10_ScenarioASampleEmitted ==
    (pc = "done") => ScenarioASample \in EmittedSamples

\* C10, amended: in Scenario A the sample that _expand builds for A, in
\* either iteration, has C and then B spliced in, the text B, C, A and 10
\* tokens; with 10 tokens above max_tokens = 8 it is outside the acceptance
\* window, is not tracked and is not emitted: the run ends with the samples
\* of B and C alone in the dataset and with an empty summary.
C10_ScenarioASampleBuiltNotEmitted ==
    /\ \A s \in BuiltSamples : (s.title = "A") => (s = ScenarioASample)
    /\ \A s \in EmittedSamples : s.title # "A"
    /\ link_expansion_count = EmptyCounter
    /\ (pc = "done") =>
           /\ {s.title : s \in EmittedSamples} = {"B", "C"}
           /\ Len(dataset) = 2
           /\ link_expansion_file = <<EmptyCounter>>

\* In the second iteration of Scenario A, _expand has built the sample for A
\* with C and then B spliced in, after the samples of B and C were emitted.
C10_Witness ==
    /\ iteration = 1
    /\ built_sample = <<ScenarioASample>>
    /\ Len(dataset) = 2

\* Items i and j of the round's call of _prioritize_links have the same
\* flag, the same expansion count and the same frequency.
TieButTokens(i, j) ==
    /\ built_items[i][2] = built_items[j][2]
    /\ built_items[i][3] = built_items[j][3]
    /\ built_items[i][4] = built_items[j][4]

\* C11, as claimed: of two candidates that tie on the flag, the expansion
\* count and the frequency, the one with more tokens is spliced in before the
\* one with fewer tokens.
C11_MoreTokensFirst ==
    \A s \in BuiltSamples : \A i, j \in 1..Len(built_items) :
        (TieButTokens(i, j) /\ built_items[i][5] > built_items[j][5])
        => ExpandedFirst(s, built_items[i][1], built_items[j][1])

\* C11, amended: of two candidates that tie on the flag, the expansion count
\* and the frequency, the one with fewer tokens is spliced in before the one
\* with more tokens.
C11_FewerTokensFirst ==
    \A s \in BuiltSamples : \A i, j \in 1..Len(built_items) :
        (TieButTokens(i, j) /\ built_items[i][5] < built_items[j][5])
        => ExpandedFirst(s, built_items[i][1], built_items[j][1])

\* A sample was emitted with two links spliced in that tied on all but the
\* token count, the one with more tokens having come later in the set's
\* enumeration order (where a sort without the token count pops it first).
C11_Witness ==
    /\ iteration = 1
    /\ \E s \in BuiltSamples : \E i, j \in 1..Len(built_items) :
           /\ s \in EmittedSamples
           /\ TieButTokens(i, j)
           /\ built_items[i][5] < built_items[j][5]
           /\ built_items[j][1] \in Range(s.links_expanded)
           /\ Position(hash_order[s.title], built_items[j][1])
                  > Position(hash_order[s.title], built_items[i][1])

\* C12: of two candidates with the same flag, the one with the strictly
\* lower expansion count is spliced in first, whatever their frequencies and
\* token counts; with equal expansion counts, the one with the strictly
\* lower frequency is spliced in first, whatever their token counts.
C12_LoadThenRarity ==
    \A s \in BuiltSamples : \A i, j \in 1..Len(built_items) :
        ( /\ built_items[i][2] = built_items[j][2]
          /\ \/ built_items[i][3] < built_items[j][3]
             \/ /\ built_items[i][3] = built_items[j][3]
                /\ built_items[i][4] < built_items[j][4] )
        => ExpandedFirst(s, built_items[i][1], built_items[j][1])

\* A sample was emitted whose first link spliced in had the lower expansion
\* count but the higher frequency and the higher token count of two
\* candidates with the same flag.
C12_Witness ==
    \E s \in BuiltSamples : \E i, j \in 1..Len(built_items) :
        /\ s \in EmittedSamples
        /\ built_items[i][2] = built_items[j][2]
        /\ built_items[i][3] < built_items[j][3]
        /\ built_items[i][4] > built_items[j][4]
        /\ built_items[i][5] > built_items[j][5]
        /\ s.links_expanded # <<>>
        /\ Head(s.links_expanded) = built_items[i][1]

\* A sample was built with two links spliced in that had the same flag and
\* expansion count, the first of them with the lower frequency but the higher
\* token count.
C12_RarityReached ==
    \E s \in BuiltSamples : \E i, j \in 1..Len(built_items) :
        /\ built_items[i][2] = built_items[j][2]
        /\ built_items[i][3] = built_items[j][3]
        /\ built_items[i][4] < built_items[j][4]
        /\ built_items[i][5] > built_items[j][5]
        /\ s.links_expanded = <<built_items[i][1], built_items[j][1]>>

\* The rounds of the first iteration on rows 1..k, recomputed from the
\* corpus: the counters that _init_dataset resets at the start of the second
\* iteration are gone from the state by then. Each round starts from the
\* expansion state the round before it left.
RECURSIVE FirstPassRounds(_)
FirstPassRounds(k) ==
    IF k = 0 THEN <<>>
    ELSE \* the set binds the rounds before this one to one evaluation
         CHOOSE rounds \in
             {Append(prev,
                     LoopBody(IF k = 1
                              THEN [lec |-> EmptyCounter, considered |-> {},
                                    dataset |-> <<>>, dataset_length |-> 0]
                              ELSE prev[k - 1],
                              0, articles_db[k], {}, hash_order)) :
                  prev \in {FirstPassRounds(k - 1)}} : TRUE

\* The first iteration is over and the carried-forward set has just been
\* computed.
AtPassBoundary == iteration = 1 /\ pc = "init_dataset"

\* The set is all_links_considered minus the keys of the link_expansion_count
\* that the last round of the first iteration left.
CarriedSetAsComputed(rounds) ==
    links_considered_in_first_iteration_but_not_expanded =
        all_links_considered_for_expansion
            \ (IF rounds = <<>> THEN {} ELSE DOMAIN rounds[Len(rounds)].lec)

\* C13, as claimed: at the pass boundary the set is as computed, and no link
\* in it was spliced into any sample that the first iteration built, the
\* samples outside the acceptance window included.
C13_CarriedNeverSplicedIn ==
    AtPassBoundary =>
        \A rounds \in {FirstPassRounds(Len(articles_db))} :
            /\ CarriedSetAsComputed(rounds)
            /\ \A k \in 1..Len(rounds) :
                   Range(rounds[k].sample[1].links_expanded)
                       \cap links_considered_in_first_iteration_but_not_expanded
                       = {}

\* C13, amended: at the pass boundary the set is as computed, and no link in
\* it was spliced into any sample that the first iteration built and
\* accepted; a sample outside the acceptance window is not tracked.
C13_CarriedNeverSplicedIntoAccepted ==
    AtPassBoundary =>
        \A rounds \in {FirstPassRounds(Len(articles_db))} :
            /\ CarriedSetAsComputed(rounds)
            /\ \A k \in 1..Len(rounds) :
                   (rounds[k].outcome # "continue") =>
                       Range(rounds[k].sample[1].links_expanded)
                           \cap links_considered_in_first_iteration_but_not_expanded
                           = {}

\* At the pass boundary the set holds a link of an article whose accepted
\* sample had another link spliced in, and a sample was rejected.
C13_Witness ==
    /\ AtPassBoundary
    /\ \E rounds \in {FirstPassRounds(Len(articles_db))} :
           /\ \E k \in 1..Len(rounds) :
                  /\ rounds[k].outcome # "continue"
                  /\ rounds[k].sample[1].links_expanded # <<>>
                  /\ title_to_links[articles_db[k]]
                         \cap links_considered_in_first_iteration_but_not_expanded
                         # {}
           /\ \E k \in 1..Len(rounds) : rounds[k].outcome = "continue"

\* Nothing has been appended to the dataset and dataset_length is 0.
NothingEmitted == dataset = <<>> /\ dataset_length = 0

\* C14: while the first iteration runs nothing is appended and dataset_length
\* stays 0; a sample is appended only by a round of the title loop of the
\* second iteration; and the second iteration begins only when the first has
\* gone through all rows, with the carried-forward set computed in that step.
C14_DiscoveryOnly ==
    [][ /\ (iteration = 0) => NothingEmitted
        /\ (iteration' = 0) => NothingEmitted'
        /\ (dataset' # dataset) =>
               (iteration = 1 /\ iteration' = 1 /\ pc = "build_dataset")
        /\ (iteration' # iteration) =>
               /\ iteration = 0 /\ iteration' = 1
               /\ NothingEmitted
               /\ cursor = Len(articles_db) + 1
               /\ links_considered_in_first_iteration_but_not_expanded' =
                      all_links_considered_for_expansion
                          \ DOMAIN link_expansion_count ]_vars

\* The second iteration has appended a sample with a link spliced in, after
\* a first iteration that accepted samples and left a carried-forward set.
C14_Witness ==
    /\ iteration = 1
    /\ \E s \in EmittedSamples : s.links_expanded # <<>>
    /\ links_considered_in_first_iteration_but_not_expanded # {}

\* The number of samples among the first n of the dataset, other than the
\* one of the given title, that have the link spliced in.
TimesSplicedIn(link, n, title) ==
    Cardinality({k \in 1..n : /\ dataset[k].title # title
                              /\ link \in Range(dataset[k].links_expanded)})

\* C15: the second iteration starts its title loop with an empty
\* link_expansion_count and dataset_length 0; throughout the second iteration
\* the count of a link is the number of emitted samples it is spliced into,
\* the counts that _prioritize_links reads for a round are those of the
\* samples emitted before it, and the summary written at the end holds
\* these counts: nothing of the first iteration's counts is left.
C15_CountersReset ==
    /\ (iteration = 1 /\ pc = "build_dataset" /\ cursor = 1) =>
           (link_expansion_count = EmptyCounter /\ dataset_length = 0)
    /\ (iteration = 1 /\ pc # "init_dataset") =>
           /\ dataset_length = Len(dataset)
           /\ \A l \in LinkTargets :
                  CounterGet(link_expansion_count, l) =
                      TimesSplicedIn(l, Len(dataset), "")
           /\ \A s \in BuiltSamples : \A i \in 1..Len(built_items) :
                  built_items[i][3] =
                      TimesSplicedIn(built_items[i][1], Len(dataset), s.title)
    /\ (pc = "done") => (link_expansion_file = <<link_expansion_count>>)

\* The title loop of the second iteration is about to start with the
\* counters reset, after a first iteration that spliced in a link it had
\* considered.
C15_Witness ==
    /\ iteration = 1 /\ pc = "build_dataset" /\ cursor = 1
    /\ link_expansion_count = EmptyCounter
    /\ all_links_considered_for_expansion
           \ links_considered_in_first_iteration_but_not_expanded # {}

\* The summary file exists exactly when the run has come to its end.
SummaryOnlyWhenDone == (link_expansion_file # None) <=> (pc = "done")

\* C16: the summary is written by one step only, the one that follows the
\* end of the second iteration and ends the run; before that step, and so in
\* every state where the run has raised or may be terminated, there is no
\* summary; after it neither the summary nor the dataset changes.
C16_SummaryOnceAtEnd ==
    [][ /\ SummaryOnlyWhenDone
        /\ SummaryOnlyWhenDone'
        /\ (link_expansion_file' # link_expansion_file) =>
               /\ link_expansion_file = None
               /\ iteration = 1 /\ pc = "save" /\ pc' = "done"
               /\ dataset' = dataset
        /\ (link_expansion_file # None) =>
               (dataset' = dataset
                   /\ link_expansion_file' = link_expansion_file) ]_vars

\* The run has ended with samples in the dataset and a summary that counts
\* a link.
C16_Witness ==
    /\ pc = "done"
    /\ dataset # <<>>
    /\ link_expansion_file # None
    /\ link_expansion_file[1] # EmptyCounter

\* The run is configured with an include strategy that is neither prepend
\* nor append.
UnknownStrategy == include_strategy \notin {"prepend", "append"}

\* C17, as claimed: under an unknown include strategy no sample is ever
\* emitted and no summary is written.
C17_UnknownStrategyNoOutput ==
    UnknownStrategy =>
        (dataset = <<>> /\ link_expansion_file = None)

\* C17, amended: under an unknown include strategy the run raises ValueError
\* in the first round of the title loop that tries to splice a link, which is
\* a round of the first iteration: nothing has been emitted and no summary
\* is written. Every round that ends without raising had nothing to splice,
\* so no sample has a link spliced in and no link is counted; a run in which
\* no round tries to splice a link does not raise, and whatever it emits is
\* unexpanded.
C17_UnknownStrategyFatalWhenUsed ==
    UnknownStrategy =>
        /\ \A s \in BuiltSamples \cup EmittedSamples : s.links_expanded = <<>>
        /\ link_expansion_count = EmptyCounter
        /\ \A s \in BuiltSamples :
               \/ built_items = <<>>
               \/ ~MayExpand(Wide(title_to_num_tokens[s.title]), 0)
        /\ (pc = "raised") =>
               /\ exception = "ValueError"
               /\ iteration = 0
               /\ built_items # <<>>
               /\ MayExpand(Wide(title_to_num_tokens[articles_db[cursor - 1]]), 0)
               /\ dataset = <<>>
               /\ link_expansion_file = None
        /\ (dataset # <<>>) => (pc # "raised" /\ iteration = 1)

\* Under an unknown include strategy the run has raised in a round after the
\* first, the rounds before it having had nothing to splice.
C17_Witness ==
    /\ UnknownStrategy
    /\ pc = "raised"
    /\ exception = "ValueError"
    /\ cursor - 1 > 1

\* The sample is its article as it is: no link spliced in, the article's own
\* token count and text.
Unexpanded(s) ==
    /\ s.links_expanded = <<>>
    /\ s.n_links_expanded = 0
    /\ s.n_tokens = Wide(title_to_num_tokens[s.title])
    /\ s.expanded_text = RowText(s.title)

\* C18: under a local cap, 0 included, no sample built or emitted has more
\* links spliced in than the cap; under a cap of 0 every sample is
\* unexpanded.
C18_LocalCap ==
    (max_link_expansions_local # None) =>
        \A s \in BuiltSamples \cup EmittedSamples :
            /\ Len(s.links_expanded) <= max_link_expansions_local[1]
            /\ (max_link_expansions_local[1] = 0) => Unexpanded(s)

\* Under a local cap of 0 a sample was emitted unexpanded, below max_tokens
\* and with a candidate link at hand.
C18_Witness ==
    /\ max_link_expansions_local = Some(0)
    /\ \E s \in BuiltSamples :
           /\ s \in EmittedSamples
           /\ WideLess(s.n_tokens, max_tokens)
           /\ built_items # <<>>
           /\ Unexpanded(s)

\* C19: a sample of an article whose own token count is max_tokens or more,
\* which is every article when max_tokens is 0, is unexpanded.
C19_AlreadyAtThreshold ==
    \A s \in BuiltSamples \cup EmittedSamples :
        WideLeq(max_tokens, Wide(title_to_num_tokens[s.title])) => Unexpanded(s)

\* With max_tokens 0, _expand has returned an article unexpanded that had a
\* candidate link at hand.
C19_Witness ==
    /\ max_tokens = Wide(0)
    /\ \E s \in BuiltSamples : built_items # <<>> /\ Unexpanded(s)

\* An article of exactly max_tokens tokens, with a candidate link at hand,
\* was emitted unexpanded.
C19_AtThresholdEmitted ==
    \E s \in BuiltSamples :
        /\ s \in EmittedSamples
        /\ Wide(title_to_num_tokens[s.title]) = max_tokens
        /\ built_items # <<>>
        /\ Unexpanded(s)

\* The texts of the given articles, in their order, with one blank line
\* between each two.
RECURSIVE JoinTexts(_)
JoinTexts(titles) ==
    IF titles = <<>> THEN <<>>
    ELSE IF Len(titles) = 1 THEN RowText(Head(titles))
    ELSE RowText(Head(titles)) \o <<BlankLine>> \o JoinTexts(Tail(titles))

Reverse(seq) == [k \in 1..Len(seq) |-> seq[Len(seq) + 1 - k]]

\* C20: the expanded_text of a sample with links_expanded = l1, ..., lk is,
\* under prepend, the texts of lk, ..., l1 and then the article's own text
\* and, under append, the article's own text and then the texts of
\* l1, ..., lk, with one blank line between each two.
C20_TextLayout ==
    \A s \in BuiltSamples \cup EmittedSamples :
        /\ (include_strategy = "prepend") =>
               s.expanded_text =
                   JoinTexts(Reverse(s.links_expanded) \o <<s.title>>)
        /\ (include_strategy = "append") =>
               s.expanded_text = JoinTexts(<<s.title>> \o s.links_expanded)

\* Under append a sample with two links spliced in has been emitted.
C20_Witness ==
    /\ include_strategy = "append"
    /\ \E s \in EmittedSamples : Len(s.links_expanded) = 2

\* Under prepend a sample with two links spliced in has been emitted.
C20_PrependReached ==
    /\ include_strategy = "prepend"
    /\ \E s \in EmittedSamples : Len(s.links_expanded) = 2

\* The sample has fewer tokens than min_tokens or more than max_tokens.
OutsideWindow(s) ==
    \/ WideLess(s.n_tokens, Wide(min_tokens))
    \/ WideLess(max_tokens, s.n_tokens)

\* C21: a round of the title loop, in either iteration, that builds a sample
\* outside the acceptance window leaves link_expansion_count,
\* all_links_considered_for_expansion, dataset_length and the dataset as they
\* were, raises nothing, and the loop goes on with the next row (or ends with
\* the last one).
C21_RejectedSampleFrame ==
    [][ ( /\ pc = "build_dataset"
          /\ built_sample' # None
          /\ OutsideWindow(built_sample'[1]) )
        => /\ link_expansion_count' = link_expansion_count
           /\ all_links_considered_for_expansion' =
                  all_links_considered_for_expansion
           /\ dataset_length' = dataset_length
           /\ dataset' = dataset
           /\ exception' = ""
           /\ cursor' = cursor + 1
           /\ pc' = IF cursor = Len(articles_db) THEN "iteration_end"
                    ELSE "build_dataset" ]_vars

\* In the second iteration, with samples emitted and links counted, a round
\* has built a sample with a link spliced in that is outside the window, and
\* the loop goes on.
C21_Witness ==
    /\ iteration = 1
    /\ pc = "build_dataset"
    /\ dataset # <<>>
    /\ link_expansion_count # EmptyCounter
    /\ \E s \in BuiltSamples :
           /\ OutsideWindow(s)
           /\ s.links_expanded # <<>>
           /\ s \notin EmittedSamples

\* The links that the round which built the sample in built_sample tracks:
\* those spliced in, if the sample is inside the acceptance window.
TrackedBy(s) == IF OutsideWindow(s) THEN {} ELSE Range(s.links_expanded)

\* C22: a round of the title loop changes link_expansion_count only by what
\* _track_expanded_links adds for an accepted sample: the calls of
\* _get_links, _prioritize_links and _expand that build the sample add no
\* key to it, not even one with the value 0, and change no count; no step
\* changes link_to_freq; a round changes the carried-forward set in neither
\* iteration, and no step of the second iteration changes it.
C22_BuildingIsReadOnly ==
    [][ /\ link_to_freq' = link_to_freq
        /\ (iteration = 1 \/ pc = "build_dataset") =>
               links_considered_in_first_iteration_but_not_expanded' =
                   links_considered_in_first_iteration_but_not_expanded
        /\ (pc = "build_dataset" /\ built_sample' = None) =>
               link_expansion_count' = link_expansion_count
        /\ (pc = "build_dataset" /\ built_sample' # None) =>
               /\ DOMAIN link_expansion_count' =
                      DOMAIN link_expansion_count
                          \cup TrackedBy(built_sample'[1])
               /\ \A l \in DOMAIN link_expansion_count' :
                      link_expansion_count'[l] =
                          CounterGet(link_expansion_count, l)
                              + (IF l \in TrackedBy(built_sample'[1])
                                 THEN 1 ELSE 0)
        /\ \A l \in DOMAIN link_expansion_count' :
               link_expansion_count'[l] >= 1 ]_vars

\* In the second iteration, with a carried-forward set at hand, a round has
\* read the count of a candidate that is no key of link_expansion_count, and
\* the candidate is still no key of it.
C22_Witness ==
    /\ iteration = 1
    /\ links_considered_in_first_iteration_but_not_expanded # {}
    /\ link_expansion_count # EmptyCounter
    /\ \E s \in BuiltSamples : \E i \in 1..Len(built_items) :
           /\ built_items[i][3] = 0
           /\ built_items[i][1] \notin DOMAIN link_expansion_count

\* The counter that one pass over the dataset gives: for every link, the
\* number of emitted samples that have it spliced in, with no key for a link
\* that no sample has.
StreamCount ==
    LET spliced == UNION {Range(dataset[k].links_expanded) :
                              k \in 1..Len(dataset)}
    IN  [l \in spliced |->
            Cardinality({k \in 1..Len(dataset) :
                             l \in Range(dataset[k].links_expanded)})]

\* C23: once the second iteration has reset the counters, and in the summary
\* file, link_expansion_count is the count of the links over the emitted
\* samples; and no sample, built or emitted, has a link spliced in twice.
C23_SummaryAgreesWithStream ==
    /\ (iteration = 1 /\ pc # "init_dataset") =>
           link_expansion_count = StreamCount
    /\ (link_expansion_file # None) => (link_expansion_file[1] = StreamCount)
    /\ \A s \in BuiltSamples \cup EmittedSamples :
           Cardinality(Range(s.links_expanded)) = Len(s.links_expanded)

\* The run has ended with a summary in which a link is counted twice, two
\* samples having it spliced in, one of them together with another link.
C23_Witness ==
    /\ pc = "done"
    /\ link_expansion_file # None
    /\ \E l \in DOMAIN link_expansion_file[1] : link_expansion_file[1][l] = 2
    /\ \E s \in EmittedSamples : Len(s.links_expanded) = 2

====
